---- MODULE Spec2Model ----
(***************************************************************************)
(* Model of the CSS selector builder of src/objects-tasks.js               *)
(* (class CssSelectorBuilder, CssSelectorBuilder.prototype.combine and the *)
(* cssSelectorBuilder facade).                                             *)
(*                                                                         *)
(* A JavaScript string is modelled as a sequence of one-character strings, *)
(* so that concatenation (+=, template literals) is \o.  Builder objects   *)
(* live in a heap: a sequence of records, the index being the object       *)
(* identity; `new CssSelectorBuilder()` appends a record to the heap.      *)
(*                                                                         *)
(* The pure functions sellTickets and compareObjects of the same file are  *)
(* modelled as operators/steps on the variable `call`, each under its own  *)
(* specification (SpecTickets, SpecCompare).                               *)
(***************************************************************************)
EXTENDS Integers, Sequences, FiniteSets, TLC

\* ------------------------------------------------------------------ bounds
\* The heap is kept small: a call that can extend it is made only while
\* Size(heap), two for each builder object plus one for each character the
\* builders hold, is below MaxSize.
MaxSize == 8

\* ------------------------------------------------------------------ inputs
Values == {<<"a">>, <<"b">>}
Tokens == {<<"+">>, <<">">>}
Kinds == {"element", "id", "class", "attr", "pseudoClass", "pseudoElement"}

VARIABLES heap, hist, base, last, call
vars == <<heap, hist, base, last, call>>

\* ------------------------------------------------------- CssSelectorBuilder
\* A constructor whose previousOrder starts at 1.
Constructor_PreviousOrderOne ==
  [result |-> <<>>,
   previousOrder |-> 1,
   elementUsed |-> <<FALSE, 0>>,
   idUsed |-> <<FALSE, 1>>,
   classUsed |-> <<FALSE, 2>>,
   attrUsed |-> <<FALSE, 3>>,
   pseudoClassUsed |-> <<FALSE, 4>>,
   pseudoElementUsed |-> <<FALSE, 5>>,
   combinatorUsed |-> <<FALSE, 6>>]

\* constructor(): the fields of a new builder; a xxxUsed field is the array
\* [used, order] (1-based here: [1] is the flag, [2] the order number).
Constructor ==
  [result |-> <<>>,
   previousOrder |-> 0,
   elementUsed |-> <<FALSE, 0>>,
   idUsed |-> <<FALSE, 1>>,
   classUsed |-> <<FALSE, 2>>,
   attrUsed |-> <<FALSE, 3>>,
   pseudoClassUsed |-> <<FALSE, 4>>,
   pseudoElementUsed |-> <<FALSE, 5>>,
   combinatorUsed |-> <<FALSE, 6>>]

\* `${methodName}Used`
UsedFlagName(methodName) ==
  CASE methodName = "element" -> "elementUsed"
    [] methodName = "id" -> "idUsed"
    [] methodName = "class" -> "classUsed"
    [] methodName = "attr" -> "attrUsed"
    [] methodName = "pseudoClass" -> "pseudoClassUsed"
    [] methodName = "pseudoElement" -> "pseudoElementUsed"

\* checkUsage without the order test.
checkUsage_NoOrderTest(b, methodName) ==
  LET usedFlag == UsedFlagName(methodName)
      flag == b[usedFlag][2]
      b1 == [b EXCEPT !.previousOrder = flag]
  IN IF usedFlag \notin {"classUsed", "attrUsed", "pseudoClassUsed", "combinatorUsed"}
     THEN IF b1[usedFlag][1]
          THEN [self |-> b1, err |-> "dup"]
          ELSE [self |-> [b1 EXCEPT ![usedFlag] = <<TRUE, @[2]>>], err |-> "none"]
     ELSE [self |-> b1, err |-> "none"]

\* checkUsage that sets the used flag without testing it.
checkUsage_NoDupTest(b, methodName) ==
  LET usedFlag == UsedFlagName(methodName)
  IN IF b[usedFlag][2] < b.previousOrder
     THEN [self |-> b, err |-> "order"]
     ELSE LET flag == b[usedFlag][2]
              b1 == [b EXCEPT !.previousOrder = flag]
          IN IF usedFlag \notin {"classUsed", "attrUsed", "pseudoClassUsed", "combinatorUsed"}
             THEN [self |-> [b1 EXCEPT ![usedFlag] = <<TRUE, @[2]>>], err |-> "none"]
             ELSE [self |-> b1, err |-> "none"]

\* checkUsage that never assigns previousOrder.
checkUsage_OrderNotUpdated(b, methodName) ==
  LET usedFlag == UsedFlagName(methodName)
  IN IF b[usedFlag][2] < b.previousOrder
     THEN [self |-> b, err |-> "order"]
     ELSE IF usedFlag \notin {"classUsed", "attrUsed", "pseudoClassUsed", "combinatorUsed"}
          THEN IF b[usedFlag][1]
               THEN [self |-> b, err |-> "dup"]
               ELSE [self |-> [b EXCEPT ![usedFlag] = <<TRUE, @[2]>>], err |-> "none"]
          ELSE [self |-> b, err |-> "none"]

\* checkUsage that applies the duplicate test to every kind.
checkUsage_AllSingleton(b, methodName) ==
  LET usedFlag == UsedFlagName(methodName)
  IN IF b[usedFlag][2] < b.previousOrder
     THEN [self |-> b, err |-> "order"]
     ELSE LET flag == b[usedFlag][2]
              b1 == [b EXCEPT !.previousOrder = flag]
          IN IF b1[usedFlag][1]
             THEN [self |-> b1, err |-> "dup"]
             ELSE [self |-> [b1 EXCEPT ![usedFlag] = <<TRUE, @[2]>>], err |-> "none"]

\* checkUsage that makes the duplicate test before the order test.
checkUsage_DupFirst(b, methodName) ==
  LET usedFlag == UsedFlagName(methodName)
      single == usedFlag \notin {"classUsed", "attrUsed", "pseudoClassUsed", "combinatorUsed"}
  IN IF single /\ b[usedFlag][1]
     THEN [self |-> b, err |-> "dup"]
     ELSE IF b[usedFlag][2] < b.previousOrder
          THEN [self |-> b, err |-> "order"]
          ELSE LET b1 == [b EXCEPT !.previousOrder = b[usedFlag][2]]
               IN IF single
                  THEN [self |-> [b1 EXCEPT ![usedFlag] = <<TRUE, @[2]>>], err |-> "none"]
                  ELSE [self |-> b1, err |-> "none"]

\* checkUsage(methodName) on builder record b: the builder as the call leaves
\* it (self) and the error thrown, if any.  previousOrder is assigned after
\* the order test and before the duplicate test, as in the code.
checkUsage(b, methodName) ==
  LET usedFlag == UsedFlagName(methodName)
  IN IF b[usedFlag][2] < b.previousOrder
     THEN [self |-> b, err |-> "order"]
     ELSE LET flag == b[usedFlag][2]
              b1 == [b EXCEPT !.previousOrder = flag]
          IN IF usedFlag \notin {"classUsed", "attrUsed", "pseudoClassUsed", "combinatorUsed"}
             THEN IF b1[usedFlag][1]
                  THEN [self |-> b1, err |-> "dup"]
                  ELSE [self |-> [b1 EXCEPT ![usedFlag] = <<TRUE, @[2]>>], err |-> "none"]
             ELSE [self |-> b1, err |-> "none"]

\* A fragment method that puts the text in front of result.
AppendText_Prepend(b, methodName, text) ==
  LET c == checkUsage(b, methodName)
  IN IF c.err # "none" THEN c
     ELSE [self |-> [c.self EXCEPT !.result = text \o @], err |-> "none"]

\* A fragment method that extends result before it calls checkUsage.
AppendText_AppendFirst(b, methodName, text) ==
  LET b0 == [b EXCEPT !.result = @ \o text]
  IN checkUsage(b0, methodName)

\* A fragment method: checkUsage, then (if it did not throw) result += text.
AppendText(b, methodName, text) ==
  LET c == checkUsage(b, methodName)
  IN IF c.err # "none" THEN c
     ELSE [self |-> [c.self EXCEPT !.result = @ \o text], err |-> "none"]

element(b, value) == AppendText(b, "element", value)

id(b, value) == AppendText(b, "id", <<"#">> \o value)

class(b, value) == AppendText(b, "class", <<".">> \o value)

attr(b, value) == AppendText(b, "attr", <<"[">> \o value \o <<"]">>)

pseudoClass(b, value) == AppendText(b, "pseudoClass", <<":">> \o value)

pseudoElement(b, value) == AppendText(b, "pseudoElement", <<":", ":">> \o value)

\* Dispatch of a method call by its name.
CallMethod(b, kind, value) ==
  CASE kind = "element" -> element(b, value)
    [] kind = "id" -> id(b, value)
    [] kind = "class" -> class(b, value)
    [] kind = "attr" -> attr(b, value)
    [] kind = "pseudoClass" -> pseudoClass(b, value)
    [] kind = "pseudoElement" -> pseudoElement(b, value)

\* reset that leaves previousOrder as it is.
reset_KeepOrder(b) ==
  [b EXCEPT !.result = <<>>,
            !.elementUsed = <<FALSE, 0>>,
            !.idUsed = <<FALSE, 1>>,
            !.classUsed = <<FALSE, 2>>,
            !.attrUsed = <<FALSE, 3>>,
            !.pseudoClassUsed = <<FALSE, 4>>,
            !.pseudoElementUsed = <<FALSE, 5>>,
            !.combinatorUsed = <<FALSE, 6>>]

\* reset that leaves the used flags as they are.
reset_KeepFlags(b) == [b EXCEPT !.result = <<>>, !.previousOrder = 0]

\* reset that leaves result without a string value (undefined).
reset_UndefinedResult(b) ==
  [b EXCEPT !.result = <<"undefined">>,
            !.previousOrder = 0,
            !.elementUsed = <<FALSE, 0>>,
            !.idUsed = <<FALSE, 1>>,
            !.classUsed = <<FALSE, 2>>,
            !.attrUsed = <<FALSE, 3>>,
            !.pseudoClassUsed = <<FALSE, 4>>,
            !.pseudoElementUsed = <<FALSE, 5>>,
            !.combinatorUsed = <<FALSE, 6>>]

reset(b) ==
  [b EXCEPT !.result = <<>>,
            !.previousOrder = 0,
            !.elementUsed = <<FALSE, 0>>,
            !.idUsed = <<FALSE, 1>>,
            !.classUsed = <<FALSE, 2>>,
            !.attrUsed = <<FALSE, 3>>,
            !.pseudoClassUsed = <<FALSE, 4>>,
            !.pseudoElementUsed = <<FALSE, 5>>,
            !.combinatorUsed = <<FALSE, 6>>]

\* stringify(): the returned string and the builder after the reset.
stringify(b) == [ret |-> b.result, self |-> reset(b)]

\* combine that joins the two strings without the spaces.
combine_NoSpaces(h, selector1, combinator, selector2) ==
  LET s1 == stringify(h[selector1])
      h1 == [h EXCEPT ![selector1] = s1.self]
      s2 == stringify(h1[selector2])
      h2 == [h1 EXCEPT ![selector2] = s2.self]
      result == [Constructor EXCEPT !.result = s1.ret \o combinator \o s2.ret]
  IN [heap |-> Append(h2, result), ret |-> Len(h2) + 1]

\* combine that puts the second selector's string first.
combine_Swapped(h, selector1, combinator, selector2) ==
  LET s1 == stringify(h[selector1])
      h1 == [h EXCEPT ![selector1] = s1.self]
      s2 == stringify(h1[selector2])
      h2 == [h1 EXCEPT ![selector2] = s2.self]
      result == [Constructor EXCEPT
                   !.result = s2.ret \o <<" ">> \o combinator \o <<" ">> \o s1.ret]
  IN [heap |-> Append(h2, result), ret |-> Len(h2) + 1]

\* combine that stores the combined string in selector1 and returns it
\* (no new object).
combine_InPlace(h, selector1, combinator, selector2) ==
  LET s1 == stringify(h[selector1])
      h1 == [h EXCEPT ![selector1] = s1.self]
      s2 == stringify(h1[selector2])
      h2 == [h1 EXCEPT ![selector2] = s2.self]
      h3 == [h2 EXCEPT ![selector1].result =
                         s1.ret \o <<" ">> \o combinator \o <<" ">> \o s2.ret]
  IN [heap |-> h3, ret |-> selector1]

\* combine whose result keeps the order number and the used flags of
\* selector2 (the combined string is stored in a copy of selector2).
combine_CarryOrder(h, selector1, combinator, selector2) ==
  LET s1 == stringify(h[selector1])
      h1 == [h EXCEPT ![selector1] = s1.self]
      old2 == h1[selector2]
      s2 == stringify(old2)
      h2 == [h1 EXCEPT ![selector2] = s2.self]
      result == [old2 EXCEPT
                   !.result = s1.ret \o <<" ">> \o combinator \o <<" ">> \o s2.ret]
  IN [heap |-> Append(h2, result), ret |-> Len(h2) + 1]

\* combine that reads both strings before either selector is reset.
combine_ReadBothFirst(h, selector1, combinator, selector2) ==
  LET s1 == stringify(h[selector1])
      s2 == stringify(h[selector2])
      h2 == [h EXCEPT ![selector1] = s1.self, ![selector2] = s2.self]
      result == [Constructor EXCEPT
                   !.result = s1.ret \o <<" ">> \o combinator \o <<" ">> \o s2.ret]
  IN [heap |-> Append(h2, result), ret |-> Len(h2) + 1]

\* CssSelectorBuilder.prototype.combine on heap h: selector1.stringify() is
\* evaluated before selector2.stringify() (template literal, left to right);
\* the result is a new object.  `this` is not used by the function.
combine(h, selector1, combinator, selector2) ==
  LET s1 == stringify(h[selector1])
      h1 == [h EXCEPT ![selector1] = s1.self]
      s2 == stringify(h1[selector2])
      h2 == [h1 EXCEPT ![selector2] = s2.self]
      result == [Constructor EXCEPT
                   !.result = s1.ret \o <<" ">> \o combinator \o <<" ">> \o s2.ret]
  IN [heap |-> Append(h2, result), ret |-> Len(h2) + 1]

\* ------------------------------------------------------------------ helpers
RECURSIVE Size(_)
Size(h) ==
  IF h = <<>> THEN 0 ELSE 2 + Len(h[Len(h)].result) + Size(SubSeq(h, 1, Len(h) - 1))

\* The last call made: its operation, the builder it was made on (for a
\* factory call or combine: the builder it returned, 0 if it threw), the
\* fragment method called and the error thrown.
NoCall == [op |-> "init", b |-> 0, kind |-> "", err |-> "none"]

\* call: the running call of a pure function (none in the builder's runs).
NoPureCall == [fn |-> "none"]

\* ------------------------------------------------------------------ actions
Init ==
  /\ heap = <<>>
  /\ hist = <<>>
  /\ base = <<>>
  /\ last = NoCall
  /\ call = NoPureCall

\* A factory that keeps one shared builder: every call after the first one
\* is made on builder 1 instead of a new object.
Factory_Shared(kind, value) ==
  /\ Size(heap) < MaxSize
  /\ IF heap = <<>>
     THEN /\ heap' = <<CallMethod(Constructor, kind, value).self>>
          /\ hist' = << << <<kind, value>> >> >>
          /\ base' = << <<>> >>
          /\ last' = [op |-> "factory", b |-> 1, kind |-> kind, err |-> "none"]
     ELSE LET r == CallMethod(heap[1], kind, value)
          IN /\ heap' = [heap EXCEPT ![1] = r.self]
             /\ hist' = IF r.err = "none"
                        THEN [hist EXCEPT ![1] = Append(@, <<kind, value>>)]
                        ELSE hist
             /\ base' = base
             /\ last' = [op |-> "factory", b |-> 1, kind |-> kind, err |-> r.err]
  /\ UNCHANGED call

\* cssSelectorBuilder.element(value), .id(value), ...:
\* new CssSelectorBuilder().<kind>(value)
Factory(kind, value) ==
  /\ Size(heap) < MaxSize
  /\ LET r == CallMethod(Constructor, kind, value)
     IN IF r.err = "none"
        THEN /\ heap' = Append(heap, r.self)
             /\ hist' = Append(hist, << <<kind, value>> >>)
             /\ base' = Append(base, <<>>)
             /\ last' = [op |-> "factory", b |-> Len(heap) + 1, kind |-> kind,
                         err |-> "none"]
        ELSE /\ UNCHANGED <<heap, hist, base>>
             /\ last' = [op |-> "factory", b |-> 0, kind |-> kind, err |-> r.err]
  /\ UNCHANGED call

\* b.element(value), b.id(value), ... on an existing builder b
AppendCall(b, kind, value) ==
  /\ b \in DOMAIN heap
  /\ Size(heap) < MaxSize
  /\ LET r == CallMethod(heap[b], kind, value)
     IN /\ heap' = [heap EXCEPT ![b] = r.self]
        /\ hist' = IF r.err = "none"
                   THEN [hist EXCEPT ![b] = Append(@, <<kind, value>>)]
                   ELSE hist
        /\ base' = base
        /\ last' = [op |-> "append", b |-> b, kind |-> kind, err |-> r.err]
  /\ UNCHANGED call

\* b.stringify()
Stringify(b) ==
  /\ b \in DOMAIN heap
  /\ LET r == stringify(heap[b])
     IN /\ heap' = [heap EXCEPT ![b] = r.self]
        /\ hist' = [hist EXCEPT ![b] = <<>>]
        /\ base' = [base EXCEPT ![b] = <<>>]
        /\ last' = [op |-> "stringify", b |-> b, kind |-> "", err |-> "none"]
  /\ UNCHANGED call

\* cssSelectorBuilder.combine(selector1, combinator, selector2):
\* new CssSelectorBuilder().combine(...); the receiver is garbage after the
\* call, only the builder made inside combine is returned.
Combine(selector1, combinator, selector2) ==
  /\ selector1 \in DOMAIN heap
  /\ selector2 \in DOMAIN heap
  /\ Size(heap) < MaxSize
  /\ LET r == combine(heap, selector1, combinator, selector2)
     IN /\ heap' = r.heap
        /\ hist' = Append([i \in DOMAIN hist |->
                            IF i \in {selector1, selector2} THEN <<>> ELSE hist[i]], <<>>)
        /\ base' = Append([i \in DOMAIN base |->
                            IF i \in {selector1, selector2} THEN <<>> ELSE base[i]],
                          r.heap[r.ret].result)
        /\ last' = [op |-> "combine", b |-> r.ret, kind |-> "", err |-> "none"]
  /\ UNCHANGED call

Next ==
  \/ \E kind \in Kinds, value \in Values : Factory(kind, value)
  \/ \E b \in DOMAIN heap, kind \in Kinds, value \in Values : AppendCall(b, kind, value)
  \/ \E b \in DOMAIN heap : Stringify(b)
  \/ \E s1 \in DOMAIN heap, s2 \in DOMAIN heap, t \in Tokens : Combine(s1, t, s2)

Spec == Init /\ [][Next]_vars

\* ------------------------------------------------------------- sellTickets
MaxQueue == 4
Bills == {25, 50, 100}

RECURSIVE SeqsUpTo(_, _)
SeqsUpTo(S, n) ==
  IF n = 0 THEN {<<>>}
  ELSE LET shorter == SeqsUpTo(S, n - 1)
       IN shorter \cup {Append(q, x) : q \in {r \in shorter : Len(r) = n - 1}, x \in S}

\* sellTickets(queue): sum starts at 0; forEach adds 25 for a bill of 25 and
\* subtracts the bill otherwise; the result is decided after the loop.
InitTickets ==
  /\ heap = <<>>
  /\ hist = <<>>
  /\ base = <<>>
  /\ last = NoCall
  /\ \E queue \in SeqsUpTo(Bills, MaxQueue) :
       call = [fn |-> "sellTickets", queue |-> queue, i |-> 0, sum |-> 0,
               pc |-> "loop", ret |-> FALSE]

\* one turn of queue.forEach
SellStep ==
  /\ call.pc = "loop"
  /\ call.i < Len(call.queue)
  /\ LET el == call.queue[call.i + 1]
     IN call' = [call EXCEPT !.i = @ + 1,
                             !.sum = IF el = 25 THEN @ + 25 ELSE @ - el]
  /\ UNCHANGED <<heap, hist, base, last>>

\* if (sum < 0) return false; return true;
SellReturn ==
  /\ call.pc = "loop"
  /\ call.i = Len(call.queue)
  /\ call' = [call EXCEPT !.pc = "done", !.ret = ~(call.sum < 0)]
  /\ UNCHANGED <<heap, hist, base, last>>

NextTickets == SellStep \/ SellReturn

SpecTickets == InitTickets /\ [][NextTickets]_vars

\* ---------------------------------------------------------- compareObjects
\* A flat object is a function from its own keys to values; Undefined stands
\* for the value undefined.
Keys == {"a", "b"}
Undefined == "undefined"
PropValues == {"1", "2", Undefined}
Objects == UNION {[ks -> PropValues] : ks \in SUBSET Keys}

\* obj[key]: the value of an own property, undefined when there is none.
Get(obj, key) == IF key \in DOMAIN obj THEN obj[key] ELSE Undefined

\* Object.keys(obj1).length === Object.keys(obj2).length &&
\* Object.keys(obj1).every((key) => obj1[key] === obj2[key])
compareObjects(obj1, obj2) ==
  /\ Cardinality(DOMAIN obj1) = Cardinality(DOMAIN obj2)
  /\ \A key \in DOMAIN obj1 : Get(obj1, key) = Get(obj2, key)

InitCompare ==
  /\ heap = <<>>
  /\ hist = <<>>
  /\ base = <<>>
  /\ last = NoCall
  /\ \E obj1 \in Objects, obj2 \in Objects :
       call = [fn |-> "compareObjects", obj1 |-> obj1, obj2 |-> obj2,
               pc |-> "call", ret |-> FALSE]

CompareCall ==
  /\ call.pc = "call"
  /\ call' = [call EXCEPT !.pc = "done", !.ret = compareObjects(call.obj1, call.obj2)]
  /\ UNCHANGED <<heap, hist, base, last>>

NextCompare == CompareCall

SpecCompare == InitCompare /\ [][NextCompare]_vars

\* ================================================================== claims
\* hist[b]: the fragments <<kind, value>> appended with success to builder b
\* since its creation or its last stringify, in call order.
\* base[b]: the text b was created with (the combined string for a builder
\* made by combine, empty for `new` in a factory), emptied by stringify.

\* The order number and the text of a fragment kind, as the claims state them.
RankOf(kind) ==
  CASE kind = "element" -> 0
    [] kind = "id" -> 1
    [] kind = "class" -> 2
    [] kind = "attr" -> 3
    [] kind = "pseudoClass" -> 4
    [] kind = "pseudoElement" -> 5

Singletons == {"element", "id", "pseudoElement"}

FragmentText(f) ==
  CASE f[1] = "element" -> f[2]
    [] f[1] = "id" -> <<"#">> \o f[2]
    [] f[1] = "class" -> <<".">> \o f[2]
    [] f[1] = "attr" -> <<"[">> \o f[2] \o <<"]">>
    [] f[1] = "pseudoClass" -> <<":">> \o f[2]
    [] f[1] = "pseudoElement" -> <<":", ":">> \o f[2]

RECURSIVE Concat(_)
Concat(fs) == IF fs = <<>> THEN <<>> ELSE FragmentText(Head(fs)) \o Concat(Tail(fs))

LastKind(fs) == fs[Len(fs)][1]

HasKind(fs, kind) == \E i \in DOMAIN fs : fs[i][1] = kind

\* An append of kind after the fragments fs respects the rank order and the
\* singleton limits.
RespectsRules(fs, kind) ==
  /\ fs = <<>> \/ RankOf(LastKind(fs)) <= RankOf(kind)
  /\ kind \in Singletons => ~HasKind(fs, kind)

\* ---------------------------------------------------------------------- C1
\* C1: for every sequence of append calls on one builder that respects the
\* rank order and the singleton limits, every call succeeds and stringify()
\* returns exactly the concatenation, in call order, of each fragment
\* formatted by its kind (after the text the builder was created with, which
\* is empty for a builder made by a factory).
C1_StringifyIsConcatenation ==
  \A b \in DOMAIN heap :
    /\ stringify(heap[b]).ret = base[b] \o Concat(hist[b])
    /\ \A kind \in Kinds, value \in Values :
         RespectsRules(hist[b], kind) =>
           LET r == CallMethod(heap[b], kind, value)
           IN /\ r.err = "none"
              /\ stringify(r.self).ret =
                   base[b] \o Concat(Append(hist[b], <<kind, value>>))

\* A factory-made builder holding three fragments with different values.
C1_Witness ==
  \E b \in DOMAIN heap :
    /\ base[b] = <<>>
    /\ Len(hist[b]) = 3
    /\ hist[b][1][2] # hist[b][2][2]
    /\ heap[b].result = Concat(hist[b])

\* ---------------------------------------------------------------------- C2
\* C2: appending a fragment whose kind has a rank strictly lower than the
\* rank of the most recently appended fragment fails with the ordering error.
C2_LowerRankIsOrderingError ==
  \A b \in DOMAIN heap, kind \in Kinds, value \in Values :
    (hist[b] # <<>> /\ RankOf(kind) < RankOf(LastKind(hist[b])))
      => CallMethod(heap[b], kind, value).err = "order"

\* id was called after class and threw the ordering error.
C2_Witness ==
  /\ last.op = "append"
  /\ last.kind = "id"
  /\ last.err = "order"
  /\ LastKind(hist[last.b]) = "class"

\* ---------------------------------------------------------------------- C3
\* C3 as stated: appending an element, id or pseudo-element fragment to a
\* builder that already has one of that kind raises the duplicate error,
\* whatever other fragments were appended in between.
C3_DuplicateWhateverBetween ==
  \A b \in DOMAIN heap, kind \in Singletons, value \in Values :
    HasKind(hist[b], kind) => CallMethod(heap[b], kind, value).err = "dup"

\* C3 amended: such an append always fails; it raises the duplicate error
\* when the fragment of that kind is the most recently appended one, and the
\* ordering error when a fragment of a higher rank was appended after it.
C3_DuplicateOrOrdering ==
  \A b \in DOMAIN heap, kind \in Singletons, value \in Values :
    HasKind(hist[b], kind) =>
      CallMethod(heap[b], kind, value).err =
        IF RankOf(LastKind(hist[b])) > RankOf(kind) THEN "order" ELSE "dup"

\* id was called on a builder holding element and id, and threw the
\* duplicate error.
C3_Witness ==
  /\ last.op = "append"
  /\ last.kind = "id"
  /\ last.err = "dup"
  /\ Len(hist[last.b]) = 2
  /\ hist[last.b][1][1] = "element"
  /\ hist[last.b][2][1] = "id"

\* ---------------------------------------------------------------------- C4
\* C4: an append call that fails leaves the builder's whole state unchanged
\* (result, previousOrder and every used flag).
C4_FailedAppendChangesNothing ==
  \A b \in DOMAIN heap, kind \in Kinds, value \in Values :
    LET r == CallMethod(heap[b], kind, value)
    IN r.err # "none" => r.self = heap[b]

\* A call has just failed on a builder that holds fragments; it went through
\* the assignment of previousOrder (duplicate error).
C4_Witness ==
  /\ last.op = "append"
  /\ last.err = "dup"
  /\ last.kind = "pseudoElement"
  /\ heap[last.b].result = base[last.b] \o Concat(hist[last.b])
  /\ Len(hist[last.b]) >= 2

\* ---------------------------------------------------------------------- C5
\* C5: after stringify() the builder is in the state of a newly constructed
\* one, and a second stringify() returns the empty string.
C5_StringifyResets ==
  /\ \A b \in DOMAIN heap :
       LET s == stringify(heap[b])
       IN /\ s.self = Constructor
          /\ stringify(s.self).ret = <<>>
          /\ \A kind \in Kinds, value \in Values :
               CallMethod(s.self, kind, value) = CallMethod(Constructor, kind, value)
  /\ last.op = "stringify" => heap[last.b] = Constructor

\* stringify() was just called; another builder still holds its fragments.
C5_Witness ==
  /\ last.op = "stringify"
  /\ heap[last.b] = Constructor
  /\ hist[last.b] = <<>>
  /\ \E o \in DOMAIN heap : heap[o].previousOrder > 0

\* ---------------------------------------------------------------------- C6
\* C6: for distinct builders first and second and any token t,
\* combine(first, t, second).stringify() is first's string, a space, t, a
\* space, second's string.
C6_CombineString ==
  \A s1 \in DOMAIN heap, s2 \in DOMAIN heap, t \in Tokens :
    s1 # s2 =>
      LET r == combine(heap, s1, t, s2)
      IN stringify(r.heap[r.ret]).ret =
           stringify(heap[s1]).ret \o <<" ">> \o t \o <<" ">> \o stringify(heap[s2]).ret

\* combine has just returned a builder holding "v t #w".
C6_Witness ==
  /\ last.op = "combine"
  /\ \E t \in Tokens, v \in Values, w \in Values :
       heap[last.b].result = v \o <<" ">> \o t \o <<" ", "#">> \o w

\* ---------------------------------------------------------------------- C7
\* C7: combine returns a builder that is none of the existing ones, leaves
\* both inputs in the fresh initial state and touches no other builder;
\* afterwards a call on the returned builder changes neither input, and a
\* call on an input does not change the string of the returned builder.
AfterCall(h, b, kind, value) == [h EXCEPT ![b] = CallMethod(h[b], kind, value).self]

AfterStringify(h, b) == [h EXCEPT ![b] = stringify(h[b]).self]

C7_CombineNoAliasing ==
  /\ \A s1 \in DOMAIN heap, s2 \in DOMAIN heap, t \in Tokens :
       LET r == combine(heap, s1, t, s2)
       IN /\ r.ret \notin DOMAIN heap
          /\ r.ret \in DOMAIN r.heap
          /\ r.heap[s1] = Constructor
          /\ r.heap[s2] = Constructor
          /\ \A o \in DOMAIN heap \ {s1, s2} : r.heap[o] = heap[o]
  /\ last.op = "combine" =>
       \A o \in DOMAIN heap \ {last.b} :
         /\ AfterStringify(heap, last.b)[o] = heap[o]
         /\ AfterStringify(heap, o)[last.b] = heap[last.b]
         /\ \A kind \in Kinds, value \in Values :
              /\ AfterCall(heap, last.b, kind, value)[o] = heap[o]
              /\ AfterCall(heap, o, kind, value)[last.b] = heap[last.b]

\* combine has just returned a new builder; two other builders are fresh.
C7_Witness ==
  /\ last.op = "combine"
  /\ last.b = Len(heap)
  /\ heap[last.b].result # <<>>
  /\ \E o1 \in DOMAIN heap, o2 \in DOMAIN heap :
       /\ o1 # o2 /\ o1 # last.b /\ o2 # last.b
       /\ heap[o1] = Constructor
       /\ heap[o2] = Constructor

\* ---------------------------------------------------------------------- C8
\* C8: combine is associative on the produced strings and takes a combined
\* builder as either operand: for distinct builders a, b, c and tokens x, y
\* both nestings give A x B y C (single spaces between the parts).
C8_CombineAssociative ==
  \A a \in DOMAIN heap, b \in DOMAIN heap, c \in DOMAIN heap, x \in Tokens, y \in Tokens :
    (a # b /\ b # c /\ a # c) =>
      LET l1 == combine(heap, a, x, b)
          l2 == combine(l1.heap, l1.ret, y, c)
          r1 == combine(heap, b, y, c)
          r2 == combine(r1.heap, a, x, r1.ret)
          left == stringify(l2.heap[l2.ret]).ret
          right == stringify(r2.heap[r2.ret]).ret
      IN /\ left = right
         /\ left = heap[a].result \o <<" ">> \o x \o <<" ">> \o heap[b].result
                     \o <<" ">> \o y \o <<" ">> \o heap[c].result

\* Three distinct builders hold text, not all the same.
C8_Witness ==
  \E a \in DOMAIN heap, b \in DOMAIN heap, c \in DOMAIN heap :
    /\ a # b /\ b # c /\ a # c
    /\ heap[a].result # <<>>
    /\ heap[b].result # <<>>
    /\ heap[c].result # <<>>
    /\ heap[a].result # heap[c].result

\* ---------------------------------------------------------------------- C9
\* C9: the ranks of the fragments appended with success to a builder since
\* its creation or last stringify are non-decreasing.
C9_RanksNonDecreasing ==
  \A b \in DOMAIN heap :
    \A i \in DOMAIN hist[b], j \in DOMAIN hist[b] :
      i < j => RankOf(hist[b][i][1]) <= RankOf(hist[b][j][1])

\* A builder holds element, class, class: a rise and a repeat.
C9_Witness ==
  \E b \in DOMAIN heap :
    /\ Len(hist[b]) = 3
    /\ hist[b][1][1] = "element"
    /\ hist[b][2][1] = "class"
    /\ hist[b][3][1] = "class"

\* --------------------------------------------------------------------- C10
\* C10: the fragments appended with success to a builder since its creation
\* or last stringify hold at most one element, one id and one pseudo-element.
C10_SingletonsAtMostOnce ==
  \A b \in DOMAIN heap, kind \in Singletons :
    Cardinality({i \in DOMAIN hist[b] : hist[b][i][1] = kind}) <= 1

\* A builder holds all three singleton kinds.
C10_Witness ==
  \E b \in DOMAIN heap :
    /\ HasKind(hist[b], "element")
    /\ HasKind(hist[b], "id")
    /\ HasKind(hist[b], "pseudoElement")

\* --------------------------------------------------------------------- C11
\* C11: class, attr and pseudoClass never raise the duplicate error and may
\* be appended any number of times in a row; for them only the rank
\* comparison with the last appended fragment applies: the call raises the
\* ordering error exactly when its rank is lower than that of the last
\* appended fragment (class after attr or pseudoClass, attr after
\* pseudoClass), and succeeds otherwise.
C11_RepeatableKinds ==
  \A b \in DOMAIN heap, kind \in Kinds \ Singletons, value \in Values :
    LET r == CallMethod(heap[b], kind, value)
        lower == hist[b] # <<>> /\ RankOf(kind) < RankOf(LastKind(hist[b]))
    IN /\ r.err # "dup"
       /\ r.err = (IF lower THEN "order" ELSE "none")
       /\ ~lower => r.self.result = heap[b].result \o FragmentText(<<kind, value>>)

\* class was just appended a second time in a row after element: "v.a.b".
C11_Witness ==
  /\ last.op = "append"
  /\ last.kind = "class"
  /\ last.err = "none"
  /\ Len(hist[last.b]) = 3
  /\ hist[last.b][2] = <<"class", <<"a">> >>
  /\ hist[last.b][3] = <<"class", <<"b">> >>
  /\ \E v \in Values : heap[last.b].result = v \o <<".", "a", ".", "b">>

\* --------------------------------------------------------------------- C12
\* C12: every factory call creates a new builder (and succeeds), every
\* append and stringify is made on, and changes, only the builder it was
\* called on; hence in every interleaving each builder is in the state its
\* own calls alone produce on a new builder.
RECURSIVE Replay(_, _)
Replay(text, fs) ==
  IF fs = <<>> THEN [Constructor EXCEPT !.result = text]
  ELSE LET f == fs[Len(fs)]
       IN CallMethod(Replay(text, SubSeq(fs, 1, Len(fs) - 1)), f[1], f[2]).self

OthersUnchanged(b) ==
  /\ Len(heap') = Len(heap)
  /\ \A o \in DOMAIN heap \ {b} : heap'[o] = heap[o] /\ hist'[o] = hist[o]

C12_BuildersIndependent ==
  [][ /\ last'.op = "factory" =>
           /\ last'.err = "none"
           /\ Len(heap') = Len(heap) + 1
           /\ last'.b = Len(heap')
           /\ \A o \in DOMAIN heap : heap'[o] = heap[o] /\ hist'[o] = hist[o]
           /\ \E value \in Values :
                heap'[last'.b] = CallMethod(Constructor, last'.kind, value).self
      /\ last'.op \in {"append", "stringify"} => OthersUnchanged(last'.b)
      /\ \A b \in DOMAIN heap' : heap'[b] = Replay(base'[b], hist'[b])
    ]_vars

\* Calls on two factory-made builders were interleaved: builder 1 was just
\* extended after builder 2 had been created.
C12_Witness ==
  /\ last.op = "append"
  /\ last.err = "none"
  /\ last.b = 1
  /\ Len(heap) >= 2
  /\ base[1] = <<>> /\ base[2] = <<>>
  /\ Len(hist[1]) = 2
  /\ hist[2] # <<>>

\* --------------------------------------------------------------------- C13
\* The seller holds n25 bills of 25 and n50 bills of 50 and serves the queue
\* in order; the change (bill - 25) is given from the bills in hand.
RECURSIVE CanServe(_, _, _)
CanServe(queue, n25, n50) ==
  IF queue = <<>> THEN TRUE
  ELSE LET bill == Head(queue)
           rest == Tail(queue)
       IN CASE bill = 25 -> CanServe(rest, n25 + 1, n50)
            [] bill = 50 -> n25 >= 1 /\ CanServe(rest, n25 - 1, n50 + 1)
            [] bill = 100 ->
                 \/ n50 >= 1 /\ n25 >= 1 /\ CanServe(rest, n25 - 1, n50 - 1)
                 \/ n25 >= 3 /\ CanServe(rest, n25 - 3, n50)

\* C13: sellTickets(queue) returns true exactly when a seller who starts
\* with no money and gives change from the bills already received can serve
\* every customer of the queue in order.
C13_SellTicketsDecidesChange ==
  call.pc = "done" => (call.ret <=> CanServe(call.queue, 0, 0))

\* --------------------------------------------------------------------- C14
\* C14: compareObjects(obj1, obj2) on flat objects returns true if and only
\* if the two objects have the same set of own keys and equal values under
\* each key.
C14_CompareObjectsIsEquality ==
  call.pc = "done" =>
    (call.ret <=> /\ DOMAIN call.obj1 = DOMAIN call.obj2
                  /\ \A key \in DOMAIN call.obj1 : call.obj1[key] = call.obj2[key])

\* --------------------------------------------------------------------- C15
\* C15: when an append breaks both rules at once (the kind is a singleton
\* already present and its rank is lower than the rank of the last appended
\* fragment) the error raised is the ordering error; the duplicate error is
\* raised only when the rank test passes.
C15_OrderingErrorFirst ==
  \A b \in DOMAIN heap, kind \in Kinds, value \in Values :
    LET r == CallMethod(heap[b], kind, value)
        lower == hist[b] # <<>> /\ RankOf(kind) < RankOf(LastKind(hist[b]))
    IN /\ (kind \in Singletons /\ HasKind(hist[b], kind) /\ lower) => r.err = "order"
       /\ r.err = "dup" => ~lower

\* element was called on a builder holding element and id, and threw the
\* ordering error.
C15_Witness ==
  /\ last.op = "append"
  /\ last.kind = "element"
  /\ last.err = "order"
  /\ Len(hist[last.b]) = 2
  /\ hist[last.b][1][1] = "element"
  /\ hist[last.b][2][1] = "id"

\* --------------------------------------------------------------------- C16
\* C16: the builder returned by combine carries no rank and no used flag of
\* its operands: each of the six appends succeeds as its first append and
\* puts its fragment after the combined text; later appends on it are
\* checked only against the fragments appended to it.
C16_CombinedBuilderFresh ==
  /\ \A s1 \in DOMAIN heap, s2 \in DOMAIN heap, t \in Tokens :
       LET r == combine(heap, s1, t, s2)
           made == r.heap[r.ret]
       IN /\ made = [Constructor EXCEPT !.result = made.result]
          /\ \A kind \in Kinds, value \in Values :
               LET c == CallMethod(made, kind, value)
               IN /\ c.err = "none"
                  /\ c.self.result = made.result \o FragmentText(<<kind, value>>)
  /\ \A b \in DOMAIN heap :
       base[b] # <<>> =>
         \A kind \in Kinds, value \in Values :
           (CallMethod(heap[b], kind, value).err = "none") <=> RespectsRules(hist[b], kind)

\* element was just appended, as first fragment, to a builder made by
\* combine: its text follows the combined text.
C16_Witness ==
  /\ last.op = "append"
  /\ last.kind = "element"
  /\ last.err = "none"
  /\ base[last.b] # <<>>
  /\ Len(hist[last.b]) = 1
  /\ heap[last.b].result = base[last.b] \o hist[last.b][1][2]

\* --------------------------------------------------------------------- C17
\* The characters a string of the model is made of.
Chars == {"a", "b", "+", ">", " ", "#", ".", "[", "]", ":"}

IsString(s) == \A i \in DOMAIN s : s[i] \in Chars

\* C17: stringify() and combine() have no error outcome: on builders in
\* every reachable state stringify() returns a string and combine() returns
\* a builder holding a string; the ordering error and the duplicate error of
\* the appends are the only failures.
C17_OnlyAppendsFail ==
  /\ last.op \in {"stringify", "combine", "factory"} => last.err = "none"
  /\ last.err \in {"none", "order", "dup"}
  /\ \A b \in DOMAIN heap :
       /\ IsString(stringify(heap[b]).ret)
       /\ IsString(stringify(stringify(heap[b]).self).ret)
       /\ \A kind \in Kinds, value \in Values :
            CallMethod(heap[b], kind, value).err \in {"none", "order", "dup"}
  /\ \A s1 \in DOMAIN heap, s2 \in DOMAIN heap, t \in Tokens :
       LET r == combine(heap, s1, t, s2)
       IN /\ r.ret \in DOMAIN r.heap
          /\ IsString(r.heap[r.ret].result)
          /\ IsString(r.heap[s1].result)
          /\ IsString(r.heap[s2].result)

\* combine has just returned while another builder is partly built.
C17_Witness ==
  /\ last.op = "combine"
  /\ last.err = "none"
  /\ IsString(heap[last.b].result)
  /\ \E o \in DOMAIN heap : o # last.b /\ heap[o].result # <<>>

\* --------------------------------------------------------------------- C18
\* C18: a builder in its initial state (newly constructed, or just
\* finalized) accepts each of the six kinds as its first append: no factory
\* call fails, and previousOrder 0 rejects no kind.
C18_InitialStateAcceptsAll ==
  /\ last.op = "factory" => last.err = "none" /\ last.b = Len(heap)
  /\ \A kind \in Kinds, value \in Values :
       /\ CallMethod(Constructor, kind, value).err = "none"
       /\ \A b \in DOMAIN heap :
            (hist[b] = <<>> /\ base[b] = <<>>) =>
              LET r == CallMethod(heap[b], kind, value)
              IN r.err = "none" /\ r.self.result = FragmentText(<<kind, value>>)

\* pseudoElement was just appended as the first fragment of a builder that
\* had been finalized (a factory-made builder starts with its fragment).
C18_Witness ==
  /\ last.op = "append"
  /\ last.kind = "pseudoElement"
  /\ last.err = "none"
  /\ base[last.b] = <<>>
  /\ Len(hist[last.b]) = 1
  /\ \E v \in Values : heap[last.b].result = <<":", ":">> \o v

\* --------------------------------------------------------------------- C19
\* C19: combine finalizes its first operand before its second: with the
\* same builder b holding T as both operands, the combined string is
\* T, space, token, space, and nothing after it.
C19_SameOperandTwice ==
  \A b \in DOMAIN heap, t \in Tokens :
    LET r == combine(heap, b, t, b)
    IN /\ stringify(r.heap[r.ret]).ret = heap[b].result \o <<" ">> \o t \o <<" ">>
       /\ r.heap[b] = Constructor

\* combine was just called with builder 1, holding one fragment, as both
\* operands.
C19_Witness ==
  /\ last.op = "combine"
  /\ Len(heap) = 2
  /\ \E v \in Values, t \in Tokens : heap[2].result = v \o <<" ">> \o t \o <<" ">>

\* --------------------------------------------------------------------- C20
\* C20: previousOrder is the rank of the last fragment appended with success
\* since creation or the last reset (0 when there is none); a singleton kind
\* whose used flag is true has a rank not above previousOrder; hence when
\* checkUsage throws the duplicate error, its assignment of previousOrder
\* did not change it.
C20_PreviousOrderAndFlags ==
  \A b \in DOMAIN heap :
    /\ heap[b].previousOrder =
         (IF hist[b] = <<>> THEN 0 ELSE RankOf(LastKind(hist[b])))
    /\ \A kind \in Singletons :
         /\ heap[b][UsedFlagName(kind)][1] <=> HasKind(hist[b], kind)
         /\ heap[b][UsedFlagName(kind)][1] => RankOf(kind) <= heap[b].previousOrder
         /\ LET c == checkUsage(heap[b], kind)
            IN c.err = "dup" => c.self.previousOrder = heap[b].previousOrder

\* element was called a second time on a builder holding only element:
\* the duplicate test was reached with previousOrder already 0.
C20_Witness ==
  /\ last.op = "append"
  /\ last.kind = "element"
  /\ last.err = "dup"
  /\ heap[last.b].elementUsed[1]
  /\ heap[last.b].previousOrder = 0

====
